---------------------------- MODULE Spec2Model ----------------------------
(***************************************************************************)
(* A model of simple-json (src/src/lib.rs): Json::from_str, a recursive-   *)
(* descent parser over a one-character lookahead.  The recursion of the    *)
(* source is made explicit as a stack of frames, one frame per active call *)
(* of a JsonBuilder method; every action is one entry, one loop iteration  *)
(* or one return-continuation of a method.                                 *)
(***************************************************************************)
EXTENDS Integers, Sequences, FiniteSets, TLC

VARIABLES
    input,        \* the characters of the &str handed to Json::from_str
    iter,         \* JsonBuilder.iter: how many characters it has yielded
    token,        \* JsonBuilder.token: Option<char>
    column,       \* JsonBuilder.column
    line,         \* JsonBuilder.line
    eof_allowed,  \* JsonBuilder.eof_allowed
    stack,        \* the active calls, innermost last
    ret,          \* the Result the last finished call returned
    nexts         \* how many times JsonBuilder::next has been called

vars == <<input, iter, token, column, line, eof_allowed, stack, ret, nexts>>

----------------------------------------------------------------------------
(* Characters.  A character is a one-character string, a text a sequence.  *)

NL     == "\n"
SP     == " "
QUOTE  == "\""
BSLASH == "\\"
None   == "None"          \* Option::None of Option<char>

Digits == {"0", "1", "2", "3", "4", "5", "6", "7", "8", "9"}

DigitVal(d) ==
    CASE d = "0" -> 0 [] d = "1" -> 1 [] d = "2" -> 2 [] d = "3" -> 3
      [] d = "4" -> 4 [] d = "5" -> 5 [] d = "6" -> 6 [] d = "7" -> 7
      [] d = "8" -> 8 [] d = "9" -> 9

----------------------------------------------------------------------------
(* enum Json, enum JsonError, Result.  Every value is a tuple whose first   *)
(* element is the variant's name.                                          *)

JNull      == <<"Null">>
JBoolean(b) == <<"Boolean", b>>
JNumber(n) == <<"Number", n>>
JString(s) == <<"String", s>>
JArray(l)  == <<"Array", l>>
JObject(m) == <<"Object", m>>

ParseError(msg) == <<"ParseError", msg>>
NotImplemented  == <<"NotImplemented">>

Ok(v)    == <<"Ok", v>>
Err(e)   == <<"Err", e>>
NoRet    == <<"NoRet">>
Pair(key, value) == <<"Pair", key, value>>   \* the tuple (String, Json)
IsOk(r)  == r[1] = "Ok"
IsErr(r) == r[1] = "Err"

(* The messages the source formats.  A positioned message keeps the three  *)
(* values that format! prints: self.token, self.line, self.column.         *)
UnexpectedEof       == ParseError(<<"Unexpected eof.">>)
Woot                == ParseError(<<"woot">>)
EscapeError         == ParseError(<<"escape error.">>)
CouldntParse(num)   == ParseError(<<"Couldn't parse number: ", num>>)
unexpected_character(c) ==
    ParseError(<<"unexpected character", c.token, c.line, c.column>>)
Unexpected_character(c) ==
    ParseError(<<"Unexpected character", c.token, c.line, c.column>>)
ExpectedColon(c) ==
    ParseError(<<"Expected to find ':', but found", c.token, c.line, c.column>>)

----------------------------------------------------------------------------
(* The cursor: the fields of JsonBuilder that next() reads and writes.     *)

Cursor ==
    [iter |-> iter, token |-> token, column |-> column, line |-> line,
     nexts |-> nexts]

SetCursor(c) ==
    /\ iter' = c.iter
    /\ token' = c.token
    /\ column' = c.column
    /\ line' = c.line
    /\ nexts' = c.nexts

KeepCursor == UNCHANGED <<iter, token, column, line, nexts>>

(* fn next: fetch the next character (None once the input is exhausted);   *)
(* a newline increments line and zeroes column, everything else, None      *)
(* included, increments column.                                            *)
next_column_never_reset(c) ==
    LET t == IF c.iter < Len(input) THEN input[c.iter + 1] ELSE None
    IN  [iter   |-> IF c.iter < Len(input) THEN c.iter + 1 ELSE c.iter,
         token  |-> t,
         line   |-> IF t = NL THEN c.line + 1 ELSE c.line,
         column |-> c.column + 1,
         nexts  |-> c.nexts + 1]

next(c) ==
    LET t == IF c.iter < Len(input) THEN input[c.iter + 1] ELSE None
    IN  [iter   |-> IF c.iter < Len(input) THEN c.iter + 1 ELSE c.iter,
         token  |-> t,
         line   |-> IF t = NL THEN c.line + 1 ELSE c.line,
         column |-> IF t = NL THEN 0 ELSE c.column + 1,
         nexts  |-> c.nexts + 1]

RECURSIVE parse_whitespace_spaces_only(_)
parse_whitespace_spaces_only(c) ==
    IF c.token = SP THEN parse_whitespace_spaces_only(next(c)) ELSE c

(* fn parse_whitespace: advance while the lookahead is a space or newline. *)
(* (n is bound to the cursor next() leaves, so that each iteration of the  *)
(* loop is evaluated once.)                                                *)
RECURSIVE parse_whitespace(_)
parse_whitespace(c) ==
    IF c.token = SP \/ c.token = NL
    THEN CHOOSE r \in {parse_whitespace(n) : n \in {next(c)}} : TRUE
    ELSE c

----------------------------------------------------------------------------
(* The call stack.                                                         *)

Top   == stack[Len(stack)]
Below == SubSeq(stack, 1, Len(stack) - 1)

At(fn, pc) == stack # <<>> /\ Top.fn = fn /\ Top.pc = pc

Return(r)           == stack' = Below /\ ret' = r
Goto(frame)         == stack' = Append(Below, frame) /\ ret' = NoRet
Call(frame, callee) == stack' = Below \o <<frame, callee>> /\ ret' = NoRet

Done   == stack = <<>>
result == ret             \* what Json::from_str returned, once Done


----------------------------------------------------------------------------
(* Number(usize): the width of usize is the target's pointer width.  The   *)
(* model takes a 16-bit target so that digit strings that overflow stay    *)
(* short.                                                                  *)

UsizeBits == 16
USIZE_MAX == 2^UsizeBits - 1

RECURSIVE usize_from_digits(_, _)
(* str::parse::<usize> on a non-empty run of decimal digits: checked       *)
(* multiply by ten and checked add of each digit; overflow is an Err.      *)
usize_from_digits(acc, s) ==
    IF s = <<>> THEN Ok(acc)
    ELSE LET m == acc * 10
             a == m + DigitVal(Head(s))
         IN  IF m > USIZE_MAX \/ a > USIZE_MAX
             THEN Err(<<"ParseIntError">>)
             ELSE usize_from_digits(a, Tail(s))

RECURSIVE usize_wrapping(_, _)
usize_wrapping(acc, s) ==
    IF s = <<>> THEN Ok(acc)
    ELSE usize_wrapping((acc * 10 + DigitVal(Head(s))) % (USIZE_MAX + 1), Tail(s))

usize_parse_wrapping(num) == usize_wrapping(0, num)

(* num.parse::<usize>()                                                    *)
usize_parse(num) == usize_from_digits(0, num)

(* The match that ends parse_number.                                       *)
number_result(num) ==
    LET r == usize_parse(num)
    IN  IF IsOk(r) THEN Ok(JNumber(r[2])) ELSE Err(CouldntParse(num))

number_step_blank_ends(tok, eofok) ==
    CASE tok \in Digits -> "push"
      [] tok \in {",", SP, NL} -> "break"
      [] tok = None -> IF eofok THEN "break" ELSE "eof"
      [] OTHER -> "unexpected"

number_step_lenient(tok, eofok) ==
    CASE tok \in Digits -> "push"
      [] tok \in {",", "]", "}", SP, NL} -> "break"
      [] tok = None -> "break"
      [] OTHER -> "unexpected"

(* The match inside parse_number's loop, on the character just fetched.    *)
number_step(tok, eofok) ==
    CASE tok \in Digits -> "push"
      [] tok = "," -> "break"
      [] tok = None -> IF eofok THEN "break" ELSE "eof"
      [] OTHER -> "unexpected"

----------------------------------------------------------------------------
(* parse_ident's closure |c| Some(c) == self.next(), on the expected       *)
(* character and the one fetched.                                          *)

ident_matches_any(c, tok) == tok # None

ident_matches(c, tok) == tok = c

----------------------------------------------------------------------------
(* One iteration of parse_string_raw's loop on the character just fetched: *)
(* what becomes of string and escape, or how the loop ends.                *)

string_raw_step_any_escape(string, escape, tok) ==
    IF escape
    THEN CASE tok = None -> [kind |-> "err", err |-> UnexpectedEof]
           [] OTHER -> [kind |-> "loop", string |-> Append(string, tok),
                        escape |-> FALSE]
    ELSE CASE tok = QUOTE  -> [kind |-> "break", string |-> string]
           [] tok = BSLASH -> [kind |-> "loop", string |-> string, escape |-> TRUE]
           [] tok = None   -> [kind |-> "err", err |-> UnexpectedEof]
           [] OTHER        -> [kind |-> "loop", string |-> Append(string, tok),
                               escape |-> FALSE]

string_raw_step_eof_closes(string, escape, tok) ==
    IF escape
    THEN CASE tok = QUOTE  -> [kind |-> "loop", string |-> Append(string, QUOTE),
                               escape |-> FALSE]
           [] tok = BSLASH -> [kind |-> "loop", string |-> Append(string, BSLASH),
                               escape |-> FALSE]
           [] tok = None   -> [kind |-> "break", string |-> string]
           [] OTHER        -> [kind |-> "err", err |-> EscapeError]
    ELSE CASE tok = QUOTE  -> [kind |-> "break", string |-> string]
           [] tok = BSLASH -> [kind |-> "loop", string |-> string, escape |-> TRUE]
           [] tok = None   -> [kind |-> "break", string |-> string]
           [] OTHER        -> [kind |-> "loop", string |-> Append(string, tok),
                               escape |-> FALSE]

string_raw_step(string, escape, tok) ==
    IF escape
    THEN CASE tok = QUOTE  -> [kind |-> "loop", string |-> Append(string, QUOTE),
                               escape |-> FALSE]
           [] tok = BSLASH -> [kind |-> "loop", string |-> Append(string, BSLASH),
                               escape |-> FALSE]
           [] tok = None   -> [kind |-> "err", err |-> UnexpectedEof]
           [] OTHER        -> [kind |-> "err", err |-> EscapeError]
    ELSE CASE tok = QUOTE  -> [kind |-> "break", string |-> string]
           [] tok = BSLASH -> [kind |-> "loop", string |-> string, escape |-> TRUE]
           [] tok = None   -> [kind |-> "err", err |-> UnexpectedEof]
           [] OTHER        -> [kind |-> "loop", string |-> Append(string, tok),
                               escape |-> FALSE]

----------------------------------------------------------------------------
(* parse_list: the match on the character fetched at the head of the loop, *)
(* and list.push(try!(self.parse())) once that parse has returned r.       *)

list_step_skips_blanks(tok) ==
    CASE tok = "]"  -> "break"
      [] tok \in {",", SP, NL} -> "skip"
      [] tok = None -> "err"
      [] OTHER      -> "parse"

list_step_comma_is_value(tok) ==
    CASE tok = "]"  -> "break"
      [] tok = None -> "err"
      [] OTHER      -> "parse"

list_step(tok) ==
    CASE tok = "]"  -> "break"
      [] tok = ","  -> "skip"
      [] tok = None -> "err"
      [] OTHER      -> "parse"

list_push_try_null_on_err(list, r) ==
    IF IsOk(r) THEN [kind |-> "loop", list |-> Append(list, r[2])]
    ELSE [kind |-> "loop", list |-> Append(list, JNull)]

list_push_try_front(list, r) ==
    IF IsOk(r) THEN [kind |-> "loop", list |-> <<r[2]>> \o list]
    ELSE [kind |-> "return", ret |-> r]

list_push_try_skip_on_err(list, r) ==
    IF IsOk(r) THEN [kind |-> "loop", list |-> Append(list, r[2])]
    ELSE [kind |-> "loop", list |-> list]

list_push_try(list, r) ==
    IF IsOk(r) THEN [kind |-> "loop", list |-> Append(list, r[2])]
    ELSE [kind |-> "return", ret |-> r]

----------------------------------------------------------------------------
(* parse_object: the match on the lookahead after next() and               *)
(* parse_whitespace(), and HashMap::insert.                                *)

object_step_comma_unexpected(tok) ==
    CASE tok = "}"   -> "break"
      [] tok = QUOTE -> "key_value"
      [] tok = None  -> "eof"
      [] OTHER       -> "unexpected"

object_step(tok) ==
    CASE tok = "}"   -> "break"
      [] tok = QUOTE -> "key_value"
      [] tok = ","   -> "skip"
      [] tok = None  -> "eof"
      [] OTHER       -> "unexpected"

map_insert_keep_first(map, key, value) ==
    [k \in DOMAIN map \cup {key} |-> IF k \in DOMAIN map THEN map[k] ELSE value]

map_insert(map, key, value) ==
    [k \in DOMAIN map \cup {key} |-> IF k = key THEN value ELSE map[k]]

HashMap_new == [k \in {} |-> JNull]

----------------------------------------------------------------------------
(* The frames.  Every frame names its method (fn), the place in it (pc)    *)
(* and the method's locals.                                                *)

F_build(pc)             == [fn |-> "build", pc |-> pc]
F_parse(pc)             == [fn |-> "parse", pc |-> pc]
F_parse_ident(ident, res) ==
    [fn |-> "parse_ident", pc |-> "all", ident |-> ident, res |-> res]
F_parse_string(pc)      == [fn |-> "parse_string", pc |-> pc]
F_parse_string_raw(string, escape) ==
    [fn |-> "parse_string_raw", pc |-> "loop", string |-> string,
     escape |-> escape]
F_parse_number(pc, num) == [fn |-> "parse_number", pc |-> pc, num |-> num]
F_parse_list(pc, list)  == [fn |-> "parse_list", pc |-> pc, list |-> list]
F_parse_object(pc, map) == [fn |-> "parse_object", pc |-> pc, map |-> map]
F_parse_object_key_value(pc, key) ==
    [fn |-> "parse_object_key_value", pc |-> pc, key |-> key]
F_parse_object_key(pc)  == [fn |-> "parse_object_key", pc |-> pc]

----------------------------------------------------------------------------
(* Json::from_str and JsonBuilder::build: next(), then parse().            *)

Build ==
    /\ At("build", "entry")
    /\ SetCursor(next(Cursor))
    /\ Call(F_build("parse"), F_parse("entry"))
    /\ UNCHANGED <<input, eof_allowed>>

BuildReturn_rejects_trailing ==
    /\ At("build", "parse")
    /\ ret # NoRet
    /\ LET c == parse_whitespace(next(Cursor))
       IN  IF IsOk(ret) /\ ret[2][1] # "Number"
           THEN /\ SetCursor(c)
                /\ Return(IF c.token = None THEN ret
                          ELSE Err(unexpected_character(c)))
           ELSE /\ KeepCursor
                /\ Return(ret)
    /\ UNCHANGED <<input, eof_allowed>>

BuildReturn ==
    /\ At("build", "parse")
    /\ ret # NoRet
    /\ Return(ret)
    /\ KeepCursor
    /\ UNCHANGED <<input, eof_allowed>>

(* fn parse: skip whitespace, then dispatch on the lookahead.              *)
Parse ==
    /\ At("parse", "entry")
    /\ LET c == parse_whitespace(Cursor)
           t == c.token
       IN  /\ SetCursor(c)
           /\ CASE t = "n" ->
                    Call(F_parse("call"),
                         F_parse_ident(<<"u", "l", "l">>, JNull))
                [] t = "t" ->
                    Call(F_parse("call"),
                         F_parse_ident(<<"r", "u", "e">>, JBoolean(TRUE)))
                [] t = "f" ->
                    Call(F_parse("call"),
                         F_parse_ident(<<"a", "l", "s", "e">>, JBoolean(FALSE)))
                [] t = QUOTE -> Call(F_parse("call"), F_parse_string("entry"))
                [] t = "["   -> Call(F_parse("call"), F_parse_list("entry", <<>>))
                [] t = "{"   ->
                    Call(F_parse("call"), F_parse_object("entry", HashMap_new))
                [] t \in Digits ->
                    Call(F_parse("call"), F_parse_number("entry", <<>>))
                [] t = None  -> Return(Err(NotImplemented))
                [] OTHER     -> Return(Err(unexpected_character(c)))
    /\ UNCHANGED <<input, eof_allowed>>

(* parse returns what the method it dispatched to returned.                *)
ParseReturn ==
    /\ At("parse", "call")
    /\ ret # NoRet
    /\ Return(ret)
    /\ KeepCursor
    /\ UNCHANGED <<input, eof_allowed>>

(* fn parse_ident: one step of ident.chars().all(..): fetch a character    *)
(* and compare it with the next expected one; all() stops at the first     *)
(* mismatch.                                                               *)
ParseIdent ==
    /\ At("parse_ident", "all")
    /\ LET c == next(Cursor)
       IN  /\ SetCursor(c)
           /\ IF ident_matches(Head(Top.ident), c.token)
              THEN IF Tail(Top.ident) = <<>>
                   THEN Return(Ok(Top.res))
                   ELSE Goto(F_parse_ident(Tail(Top.ident), Top.res))
              ELSE Return(Err(Woot))
    /\ UNCHANGED <<input, eof_allowed>>

(* fn parse_number, up to the loop: num starts as the lookahead.           *)
ParseNumberEntry ==
    /\ At("parse_number", "entry")
    /\ IF token = None
       THEN Return(Err(UnexpectedEof))
       ELSE Goto(F_parse_number("loop", <<token>>))
    /\ KeepCursor
    /\ UNCHANGED <<input, eof_allowed>>

(* One iteration of parse_number's loop; a break goes on to the final      *)
(* match on num.parse::<usize>().                                          *)
ParseNumber ==
    /\ At("parse_number", "loop")
    /\ LET c == next(Cursor)
           k == number_step(c.token, eof_allowed)
       IN  /\ SetCursor(c)
           /\ CASE k = "push"  ->
                    Goto(F_parse_number("loop", Append(Top.num, c.token)))
                [] k = "break" -> Return(number_result(Top.num))
                [] k = "eof"   -> Return(Err(UnexpectedEof))
                [] OTHER       -> Return(Err(unexpected_character(c)))
    /\ UNCHANGED <<input, eof_allowed>>

(* fn parse_string: call parse_string_raw ...                              *)
ParseString ==
    /\ At("parse_string", "entry")
    /\ Call(F_parse_string("call"), F_parse_string_raw(<<>>, FALSE))
    /\ KeepCursor
    /\ UNCHANGED <<input, eof_allowed>>

(* ... and wrap its Ok in Json::String, pass its Err on.                   *)
ParseStringReturn ==
    /\ At("parse_string", "call")
    /\ ret # NoRet
    /\ Return(IF IsOk(ret) THEN Ok(JString(ret[2])) ELSE ret)
    /\ KeepCursor
    /\ UNCHANGED <<input, eof_allowed>>

(* One iteration of parse_string_raw's loop.                               *)
ParseStringRaw ==
    /\ At("parse_string_raw", "loop")
    /\ LET c == next(Cursor)
           s == string_raw_step(Top.string, Top.escape, c.token)
       IN  /\ SetCursor(c)
           /\ CASE s.kind = "loop"  -> Goto(F_parse_string_raw(s.string, s.escape))
                [] s.kind = "break" -> Return(Ok(s.string))
                [] OTHER            -> Return(Err(s.err))
    /\ UNCHANGED <<input, eof_allowed>>

(* fn parse_list, up to the loop.                                          *)
ParseListEntry ==
    /\ At("parse_list", "entry")
    /\ eof_allowed' = FALSE
    /\ Goto(F_parse_list("loop", <<>>))
    /\ KeepCursor
    /\ UNCHANGED input

ParseList_scoped_flag ==
    /\ At("parse_list", "loop")
    /\ LET c == next(Cursor)
           k == list_step(c.token)
       IN  /\ SetCursor(c)
           /\ CASE k = "break" -> Return(Ok(JArray(Top.list)))
                [] k = "skip"  -> Goto(Top)
                [] k = "parse" ->
                    Call(F_parse_list("call", Top.list), F_parse("entry"))
                [] OTHER       -> Return(Err(Unexpected_character(c)))
           /\ eof_allowed' = (k = "break" /\ \A i \in 1..(Len(stack) - 1) :
                                  stack[i].fn \notin {"parse_list", "parse_object"})
    /\ UNCHANGED input

(* The head of parse_list's loop: next(), then the match.                  *)
ParseList ==
    /\ At("parse_list", "loop")
    /\ LET c == next(Cursor)
           k == list_step(c.token)
       IN  /\ SetCursor(c)
           /\ CASE k = "break" -> Return(Ok(JArray(Top.list)))
                [] k = "skip"  -> Goto(Top)
                [] k = "parse" ->
                    Call(F_parse_list("call", Top.list), F_parse("entry"))
                [] OTHER       -> Return(Err(Unexpected_character(c)))
    /\ UNCHANGED <<input, eof_allowed>>

(* list.push(try!(self.parse())), once parse has returned.                 *)
ParseListReturn ==
    /\ At("parse_list", "call")
    /\ ret # NoRet
    /\ LET s == list_push_try(Top.list, ret)
       IN  IF s.kind = "loop"
           THEN Goto(F_parse_list("loop", s.list))
           ELSE Return(s.ret)
    /\ KeepCursor
    /\ UNCHANGED <<input, eof_allowed>>

(* fn parse_object, up to the loop.                                        *)
ParseObjectEntry ==
    /\ At("parse_object", "entry")
    /\ eof_allowed' = FALSE
    /\ Goto(F_parse_object("loop", HashMap_new))
    /\ KeepCursor
    /\ UNCHANGED input

(* The head of parse_object's loop: next(), parse_whitespace(), the match. *)
ParseObject ==
    /\ At("parse_object", "loop")
    /\ LET c == parse_whitespace(next(Cursor))
           k == object_step(c.token)
       IN  /\ SetCursor(c)
           /\ CASE k = "break" -> Return(Ok(JObject(Top.map)))
                [] k = "key_value" ->
                    Call(F_parse_object("call", Top.map),
                         F_parse_object_key_value("entry", <<>>))
                [] k = "skip"  -> Goto(Top)
                [] k = "eof"   -> Return(Err(UnexpectedEof))
                [] OTHER       -> Return(Err(Unexpected_character(c)))
    /\ UNCHANGED <<input, eof_allowed>>

(* map.insert(key, value), once parse_object_key_value has returned; its   *)
(* Err is returned as it is.                                               *)
ParseObjectReturn ==
    /\ At("parse_object", "call")
    /\ ret # NoRet
    /\ IF IsOk(ret)
       THEN Goto(F_parse_object("loop", map_insert(Top.map, ret[2][2], ret[2][3])))
       ELSE Return(ret)
    /\ KeepCursor
    /\ UNCHANGED <<input, eof_allowed>>

(* fn parse_object_key_value: parse_object_key() ...                       *)
ParseObjectKeyValue ==
    /\ At("parse_object_key_value", "entry")
    /\ Call(F_parse_object_key_value("key", <<>>), F_parse_object_key("entry"))
    /\ KeepCursor
    /\ UNCHANGED <<input, eof_allowed>>

(* ... then, unless the key failed, next() and parse() ...                 *)
ParseObjectKeyValueKey ==
    /\ At("parse_object_key_value", "key")
    /\ ret # NoRet
    /\ IF IsOk(ret)
       THEN /\ SetCursor(next(Cursor))
            /\ Call(F_parse_object_key_value("value", ret[2]), F_parse("entry"))
       ELSE /\ KeepCursor
            /\ Return(ret)
    /\ UNCHANGED <<input, eof_allowed>>

(* ... then the pair, unless the value failed.                             *)
ParseObjectKeyValueValue ==
    /\ At("parse_object_key_value", "value")
    /\ ret # NoRet
    /\ Return(IF IsOk(ret) THEN Ok(Pair(Top.key, ret[2])) ELSE ret)
    /\ KeepCursor
    /\ UNCHANGED <<input, eof_allowed>>

(* fn parse_object_key: parse_string_raw() ...                             *)
ParseObjectKey ==
    /\ At("parse_object_key", "entry")
    /\ Call(F_parse_object_key("call"), F_parse_string_raw(<<>>, FALSE))
    /\ KeepCursor
    /\ UNCHANGED <<input, eof_allowed>>

ParseObjectKeyReturn_skips_blanks ==
    /\ At("parse_object_key", "call")
    /\ ret # NoRet
    /\ IF IsOk(ret)
       THEN LET c == parse_whitespace(next(Cursor))
            IN  /\ SetCursor(c)
                /\ Return(IF c.token # ":" THEN Err(ExpectedColon(c)) ELSE ret)
       ELSE /\ KeepCursor
            /\ Return(ret)
    /\ UNCHANGED <<input, eof_allowed>>

(* ... then, unless the key failed, next() must fetch ':'.                 *)
ParseObjectKeyReturn ==
    /\ At("parse_object_key", "call")
    /\ ret # NoRet
    /\ IF IsOk(ret)
       THEN LET c == next(Cursor)
            IN  /\ SetCursor(c)
                /\ Return(IF c.token # ":" THEN Err(ExpectedColon(c)) ELSE ret)
       ELSE /\ KeepCursor
            /\ Return(ret)
    /\ UNCHANGED <<input, eof_allowed>>

----------------------------------------------------------------------------
(* The inputs.  Documents are pairs <<text, value>>: a text and the value  *)
(* the grammar of the specification gives it.  The inputs are the texts,   *)
(* every prefix of a text (an input that ends early) and the texts with    *)
(* one character replaced (an input with an unexpected character).         *)

MaxItems  == 2      \* elements of a generated array, entries of an object
MaxDepth  == 3      \* containers wrapped around a generated innermost value
MaxPieces == 3      \* characters and escape pairs in a generated string
MaxDigits == 5      \* digits of a generated number

T_null  == <<"n", "u", "l", "l">>
T_true  == <<"t", "r", "u", "e">>
T_false == <<"f", "a", "l", "s", "e">>

SeqsUpTo(S, n) == UNION {[1..k -> S] : k \in 0..n}

RECURSIVE Concat(_)
Concat(ss) == IF ss = <<>> THEN <<>> ELSE Head(ss) \o Concat(Tail(ss))

RECURSIVE Join(_, _)
Join(ss, sep) ==
    IF Len(ss) <= 1 THEN Concat(ss) ELSE Head(ss) \o sep \o Join(Tail(ss), sep)

Prefixes(T) == UNION {{SubSeq(t, 1, k) : k \in 0..Len(t)} : t \in T}

Texts(D) == {d[1] : d \in D}

(* Strings: a body is a sequence of pieces, each a plain character, a      *)
(* newline, an escape pair the parser knows, or one it does not.           *)
GoodPieces == {<<"a">>, <<NL>>, <<BSLASH, QUOTE>>, <<BSLASH, BSLASH>>}
BadPieces  == {<<BSLASH, "a">>, <<BSLASH, NL>>}

PieceChar(p) == IF Len(p) = 2 THEN p[2] ELSE p[1]

StringBody(ps) == Concat(ps)
StringText(ps) == <<QUOTE>> \o StringBody(ps) \o <<QUOTE>>
StringChars(ps) == [i \in 1..Len(ps) |-> PieceChar(ps[i])]

GoodStringDocs ==
    {<<StringText(ps), JString(StringChars(ps))>> : ps \in SeqsUpTo(GoodPieces, MaxPieces)}

BadStringTexts ==
    {StringText(ps) : ps \in {q \in SeqsUpTo(GoodPieces \cup BadPieces, MaxPieces) :
                                 \E i \in 1..Len(q) : q[i] \in BadPieces}}

(* Literals and one-character strings: the elements of generated arrays.   *)
AtomDocs ==
    {<<T_null, JNull>>, <<T_true, JBoolean(TRUE)>>, <<T_false, JBoolean(FALSE)>>,
     <<StringText(<<<<"a">>>>), JString(<<"a">>)>>}

Seps == {<<",">>, <<",", SP>>}
Keys == {<<"a">>, <<"b">>}

ArrayDoc(ds, sep) ==
    <<<<"[">> \o Join([i \in 1..Len(ds) |-> ds[i][1]], sep) \o <<"]">>,
      JArray([i \in 1..Len(ds) |-> ds[i][2]])>>

ArrayDocs(E, n) == {ArrayDoc(ds, sep) : ds \in SeqsUpTo(E, n), sep \in Seps}

(* An entry is <<key, document>>; the object maps each key of the text to  *)
(* the value of its last occurrence.                                       *)
EntryText(e) == <<QUOTE>> \o e[1] \o <<QUOTE, ":">> \o e[2][1]

LastOf(es, k) ==
    CHOOSE i \in 1..Len(es) :
        es[i][1] = k /\ \A j \in (i + 1)..Len(es) : es[j][1] # k

ObjectValue(es) ==
    JObject([k \in {es[i][1] : i \in 1..Len(es)} |-> es[LastOf(es, k)][2][2]])

ObjectDoc(es, sep) ==
    <<<<"{">> \o Join([i \in 1..Len(es) |-> EntryText(es[i])], sep) \o <<"}">>,
      ObjectValue(es)>>

ObjectDocs(E, n) ==
    {ObjectDoc(es, sep) : es \in SeqsUpTo(Keys \X E, n), sep \in Seps}

InnerDocs ==
    {ArrayDoc(<<>>, <<",">>), ArrayDoc(<<<<T_null, JNull>>>>, <<",">>),
     ObjectDoc(<<<<<<"a">>, <<T_true, JBoolean(TRUE)>>>>>>, <<",">>)}

NestedArrayDocs == ArrayDocs(AtomDocs \cup InnerDocs, MaxItems)
WideArrayDocs ==
    {ArrayDoc(ds, <<",", SP, SP>>) : ds \in SeqsUpTo(AtomDocs, 2)}
ObjectValueDocs ==
    {<<T_null, JNull>>, <<StringText(<<<<"a">>>>), JString(<<"a">>)>>,
     ArrayDoc(<<<<T_false, JBoolean(FALSE)>>>>, <<",">>)}
NestedObjectDocs == ObjectDocs(ObjectValueDocs, MaxItems)

(* Depth: an innermost value wrapped in arrays and one-entry objects.      *)
RECURSIVE Wrap(_, _)
Wrap(layers, d) ==
    IF layers = <<>> THEN d
    ELSE LET inner == Wrap(Tail(layers), d)
         IN  IF Head(layers) = "[" THEN ArrayDoc(<<inner>>, <<",">>)
             ELSE ObjectDoc(<<<<<<"a">>, inner>>>>, <<",">>)

DeepDocs ==
    {Wrap(layers, d) : layers \in SeqsUpTo({"[", "{"}, MaxDepth),
                       d \in {<<T_null, JNull>>,
                              <<StringText(<<<<"a">>>>), JString(<<"a">>)>>}}

ArrayTexts  == Texts(NestedArrayDocs \cup WideArrayDocs)
ObjectTexts == Texts(NestedObjectDocs)

(* Numbers: digit runs long enough to overflow usize, alone or followed by *)
(* a comma; and short runs in every context, followed by every kind of     *)
(* character.                                                              *)
DigitSample == {"0", "3", "5", "6"}
DigitRuns   == SeqsUpTo(DigitSample, MaxDigits) \ {<<>>}
ShortRuns   == {<<"1">>, <<"0">>, <<"1", "2">>}

NumberContexts ==
    {<<>>, <<SP>>, <<"[">>, <<"[">> \o T_null \o <<",">>, <<"[", "[">>,
     <<"{", QUOTE, "a", QUOTE, ":">>, <<"[", "{", QUOTE, "a", QUOTE, ":">>}
NumberFollowers ==
    {<<>>, <<",">>, <<"]">>, <<"}">>, <<SP>>, <<NL>>, <<"x">>, <<",", "]">>,
     <<",", "}">>, <<",", "2", ",", "]">>, <<",", "]", "]">>, <<NL, "]">>}

NumberTexts ==
    DigitRuns \cup {r \o <<",">> : r \in SeqsUpTo(DigitSample, 2) \ {<<>>}}
      \cup {c \o r \o f : c \in NumberContexts, r \in ShortRuns, f \in NumberFollowers}

(* Literals: the three words after optional whitespace, cut short, with    *)
(* one character changed, or followed by one more character.               *)
Replace(t, i, c) == [t EXCEPT ![i] = c]

LitSubst == {"x", "u", "l", "e", "s", SP, NL}
LitWords == {T_null, T_true, T_false}
LitTexts ==
    {ws \o t : ws \in {<<>>, <<SP>>, <<NL, SP>>},
               t \in Prefixes(LitWords)
                     \cup {w \o <<c>> : w \in LitWords, c \in LitSubst}
                     \cup UNION {{Replace(w, i, c) : i \in 1..Len(w), c \in LitSubst} :
                                 w \in LitWords}}

(* Unexpected characters: one character of a small document replaced.      *)
MutChars == {"x", SP, NL, ":", ",", "]", "}"}
MutBase ==
    Texts(InnerDocs) \cup Texts(ArrayDocs(AtomDocs, 2))
      \cup {Wrap(layers, <<T_null, JNull>>)[1] : layers \in SeqsUpTo({"[", "{"}, 2)}
      \cup {<<NL>> \o t : t \in Texts(InnerDocs)}
MutTexts ==
    UNION {{Replace(t, i, c) : i \in 1..Len(t), c \in MutChars} : t \in MutBase}

(* Strings in context: complete and unfinished strings as a value and as  *)
(* an object key, at the top level and nested.                             *)
StringContexts ==
    {<<"[">>, <<"[">> \o T_null \o <<",", SP>>, <<"[", "[">>,
     <<"{", QUOTE, "a", QUOTE, ":">>, <<"[", "{", QUOTE, "a", QUOTE, ":">>,
     <<"{">>, <<"{", NL, SP>>, <<"[", "{">>,
     <<"{", QUOTE, "a", QUOTE, ":">> \o T_null \o <<",">>}
ShortStringTexts ==
    {StringText(ps) : ps \in SeqsUpTo(GoodPieces \cup BadPieces, 2)}
StringInContextTexts ==
    {c \o t : c \in StringContexts, t \in Prefixes(ShortStringTexts)}

(* The inputs of the repository's tests, with the values they assert.      *)
K_1   == <<QUOTE, "1", QUOTE>>
K_2   == <<QUOTE, "2", QUOTE>>
K_3   == <<QUOTE, "3", QUOTE>>
K_foo == <<QUOTE, "f", "o", "o", QUOTE>>
Indent(n) == [i \in 1..n |-> SP]

Test_nested_list ==
    ArrayDoc(<<ArrayDoc(<<<<T_null, JNull>>, <<T_false, JBoolean(FALSE)>>>>, <<",", SP>>),
               ArrayDoc(<<<<T_null, JNull>>, <<T_true, JBoolean(TRUE)>>>>, <<",", SP>>)>>,
             <<",", SP>>)

Test_nested_objects ==
    <<<<"{">> \o K_1 \o <<":", "{", "}", ",", SP>> \o K_2 \o <<":", "{", "}", "}">>,
      JObject([k \in {<<"1">>, <<"2">>} |-> JObject(HashMap_new)])>>

Test_string_with_escaped_quote ==
    <<<<QUOTE, "f", "o", BSLASH, QUOTE, "o", QUOTE>>,
      JString(<<"f", "o", QUOTE, "o">>)>>

Test_complex_multiline ==
    <<Concat(<<
        <<NL, "{", NL>>,
        Indent(4), K_1, <<":", NL>>,
        Indent(8), <<"{", NL>>,
        Indent(12), K_foo, <<":", SP, "[">>, T_null, <<",", SP>>, T_false,
                    <<",", SP>>, T_true, <<"]", NL>>,
        Indent(8), <<"}", ",", NL>>,
        Indent(4), K_2, <<":", SP, "{", "}", ",", NL>>,
        Indent(4), K_3, <<":", SP>>, T_false, <<NL>>,
        <<"}", NL>> >>),
      JObject([k \in {<<"1">>, <<"2">>, <<"3">>} |->
          CASE k = <<"1">> ->
                 JObject([j \in {<<"f", "o", "o">>} |->
                     JArray(<<JNull, JBoolean(FALSE), JBoolean(TRUE)>>)])
            [] k = <<"2">> -> JObject(HashMap_new)
            [] OTHER -> JBoolean(FALSE)])>>

Test_simple_number == <<<<"9", "8", "7", "6">>, JNumber(9876)>>

TestDocs ==
    {Test_nested_list, Test_nested_objects, Test_string_with_escaped_quote,
     Test_complex_multiline, Test_simple_number}

(* Whitespace: a document rendered with the run g of spaces and newlines  *)
(* at every place where parse() or parse_object's loop skips one: before   *)
(* the top-level value, after a ',' or ':' before the value that follows,  *)
(* before a key, and before an object's closing brace.  The empty run      *)
(* gives the compact form.                                                 *)
Gaps == {<<SP>>, <<NL>>, <<NL, SP, SP>>}

SpacedArrayDoc(ds, g) ==
    <<<<"[">> \o Join([i \in 1..Len(ds) |-> ds[i][1]], <<",">> \o g) \o <<"]">>,
      JArray([i \in 1..Len(ds) |-> ds[i][2]])>>

SpacedEntryText(e, g) == g \o <<QUOTE>> \o e[1] \o <<QUOTE, ":">> \o g \o e[2][1]

SpacedObjectDoc(es, g) ==
    <<<<"{">> \o Join([i \in 1..Len(es) |-> SpacedEntryText(es[i], g)], <<",">>)
         \o g \o <<"}">>,
      ObjectValue(es)>>

SpacedValueDocs(g) ==
    {<<T_null, JNull>>, <<StringText(<<<<"a">>>>), JString(<<"a">>)>>,
     SpacedArrayDoc(<<<<T_false, JBoolean(FALSE)>>, <<T_null, JNull>>>>, g),
     SpacedObjectDoc(<<>>, g)}

SpacedTop(d, g) == <<g \o d[1], d[2]>>

SpacedDocs(g) ==
    {SpacedTop(SpacedArrayDoc(ds, g), g) : ds \in SeqsUpTo(SpacedValueDocs(g), 2)}
      \cup {SpacedTop(SpacedObjectDoc(es, g), g) :
              es \in SeqsUpTo(Keys \X SpacedValueDocs(g), 2)}

Test_complex_compact ==
    <<Concat(<<
        <<"{">>, K_1, <<":", "{">>, K_foo, <<":", "[">>, T_null, <<",">>, T_false,
        <<",">>, T_true, <<"]", "}", ",">>, K_2, <<":", "{", "}", ",">>,
        K_3, <<":">>, T_false, <<"}">> >>),
      Test_complex_multiline[2]>>

AllSpacedDocs == UNION {SpacedDocs(g) : g \in Gaps \cup {<<>>}}

(* Keys: a key in an object, followed by a colon or by something else.     *)
KeyContexts ==
    {<<"{">>, <<"[", "{">>, <<"{", NL, SP>>,
     <<"{", QUOTE, "b", QUOTE, ":">> \o T_null \o <<",">>}
KeyFollowers ==
    {<<>>, <<":">> \o T_null \o <<"}">>, <<SP, ":">> \o T_null \o <<"}">>,
     <<NL, ":">> \o T_null \o <<"}">>, <<SP>>, <<NL>>, <<"x", ":">> \o T_null,
     T_null \o <<"}">>, <<"}">>, <<",">>, <<QUOTE, "b", QUOTE, ":">>}
KeyTexts ==
    {c \o <<QUOTE, "a", QUOTE>> \o f : c \in KeyContexts, f \in KeyFollowers}

(* Trailing text: a complete top-level value followed by more characters;  *)
(* a digit run followed by ',' and more characters.                        *)
Tails ==
    {<<"x">>, <<"]">>, <<"}">>, <<",">>, <<SP, "x">>, <<NL>>, <<QUOTE>>, T_null,
     <<"1">>, <<"g", "a", "r", "b", "a", "g", "e">>}
TopValueDocs == AtomDocs \cup InnerDocs \cup {ObjectDoc(<<>>, <<",">>)}
TailRuns == {<<"1">>, <<"1", "2">>, <<"7", "0", "0", "0", "0", "0">>}
TrailingTexts ==
    {d[1] \o r : d \in TopValueDocs, r \in Tails}
      \cup {d \o <<",">> \o r : d \in TailRuns, r \in Tails \cup {<<>>}}
      \cup TailRuns

(* Blanks before a closing bracket or a comma of an array: each case is    *)
(* <<text, the character after the first such blank run>>.  The same in an *)
(* object, before its closing brace.                                       *)
BlankElems == AtomDocs \cup {ArrayDoc(<<>>, <<",">>), ObjectDoc(<<>>, <<",">>)}
BlankArrayCases ==
    UNION {
      {<<<<"[">> \o g \o <<"]">>, "]">>}
        \cup {<<<<"[">> \o e[1] \o g \o <<"]">>, "]">> : e \in BlankElems}
        \cup {<<<<"[">> \o e[1] \o g \o <<",">> \o T_false \o <<"]">>, ",">> :
                e \in BlankElems}
        \cup {<<<<"[">> \o T_null \o <<",">> \o e[1] \o g \o <<"]">>, "]">> :
                e \in BlankElems}
        \cup {<<<<"[", "[">> \o e[1] \o g \o <<"]", "]">>, "]">> : e \in BlankElems}
        \cup {<<<<"{", QUOTE, "a", QUOTE, ":", "[">> \o e[1] \o g \o <<",", "]", "}">>,
                 ",">> : e \in BlankElems}
      : g \in Gaps}
BlankObjectDocs ==
    UNION {
      {<<<<"{">> \o g \o <<"}">>, JObject(HashMap_new)>>}
        \cup {<<<<"{", QUOTE, "a", QUOTE, ":">> \o e[1] \o g \o <<"}">>,
                 JObject([k \in {<<"a">>} |-> e[2]])>> : e \in BlankElems}
        \cup {<<<<"[", "{", QUOTE, "a", QUOTE, ":">> \o e[1] \o g \o <<"}", "]">>,
                 JArray(<<JObject([k \in {<<"a">>} |-> e[2]])>>)>> : e \in BlankElems}
      : g \in Gaps}
BlankTexts == Texts(BlankArrayCases) \cup Texts(BlankObjectDocs)

(* Commas: arrays and objects rendered with the usual one comma between   *)
(* items, with none, or with two, and with or without a comma before the   *)
(* first item and after the last.                                          *)
CommaSeps  == {<<>>, <<",">>, <<",", ",">>}
CommaEnds  == {<<>>, <<",">>}
CommaElems == BlankElems
CommaValues ==
    {<<T_null, JNull>>, <<T_true, JBoolean(TRUE)>>,
     <<StringText(<<<<"a">>>>), JString(<<"a">>)>>, ObjectDoc(<<>>, <<",">>)}

CommaArrayDoc(ds, lead, sep, trail) ==
    <<<<"[">> \o lead \o Join([i \in 1..Len(ds) |-> ds[i][1]], sep) \o trail
         \o <<"]">>,
      JArray([i \in 1..Len(ds) |-> ds[i][2]])>>

CommaObjectDoc(es, lead, sep, trail) ==
    <<<<"{">> \o lead \o Join([i \in 1..Len(es) |-> EntryText(es[i])], sep) \o trail
         \o <<"}">>,
      ObjectValue(es)>>

CommaDocs ==
    {CommaArrayDoc(ds, lead, sep, trail) :
        ds \in SeqsUpTo(CommaElems, 2), lead \in CommaEnds, sep \in CommaSeps,
        trail \in CommaEnds}
      \cup {CommaObjectDoc(es, lead, sep, trail) :
        es \in SeqsUpTo(Keys \X CommaValues, 2), lead \in CommaEnds,
        sep \in CommaSeps, trail \in CommaEnds}

(* The array of one comma.                                                 *)
T_comma_list == <<"[", ",", "]">>

WhitespaceTexts == Texts(AllSpacedDocs) \cup {Test_complex_compact[1]}

Inputs ==
    Prefixes(Texts(GoodStringDocs) \cup BadStringTexts
               \cup ArrayTexts \cup ObjectTexts \cup Texts(DeepDocs))
      \cup Prefixes(Texts(TestDocs)) \cup StringInContextTexts
      \cup NumberTexts \cup LitTexts \cup MutTexts
      \cup {<<SP>>, <<NL>>, <<SP, NL, SP>>}
      \cup WhitespaceTexts \cup {T_comma_list} \cup KeyTexts
      \cup TrailingTexts \cup BlankTexts \cup Texts(CommaDocs)

----------------------------------------------------------------------------
(* JsonBuilder::new on the characters of the input.                        *)
Init ==
    /\ input \in Inputs
    /\ iter = 0
    /\ token = None
    /\ column = 0
    /\ line = 0
    /\ eof_allowed = TRUE
    /\ stack = <<F_build("entry")>>
    /\ ret = NoRet
    /\ nexts = 0

Next ==
    \/ Build
    \/ BuildReturn
    \/ Parse
    \/ ParseReturn
    \/ ParseIdent
    \/ ParseNumberEntry
    \/ ParseNumber
    \/ ParseString
    \/ ParseStringReturn
    \/ ParseStringRaw
    \/ ParseListEntry
    \/ ParseList
    \/ ParseListReturn
    \/ ParseObjectEntry
    \/ ParseObject
    \/ ParseObjectReturn
    \/ ParseObjectKeyValue
    \/ ParseObjectKeyValueKey
    \/ ParseObjectKeyValueValue
    \/ ParseObjectKey
    \/ ParseObjectKeyReturn

Spec == Init /\ [][Next]_vars

(* from_str is one uninterrupted call: a step that can be taken is taken.  *)
FairSpec == Spec /\ WF_vars(Next)

----------------------------------------------------------------------------
(* What the claims speak of, read off the input alone.                     *)

IsParseError(r) == IsErr(r) /\ r[2][1] = "ParseError"

RECURSIVE SkipBlank(_, _)
(* The index of the first character of t at or after i that is neither a   *)
(* space nor a newline (Len(t) + 1 when there is none).                    *)
SkipBlank(t, i) ==
    IF i <= Len(t) /\ t[i] \in {SP, NL} THEN SkipBlank(t, i + 1) ELSE i

FirstSig == SkipBlank(input, 1)

StartsWithAt(t, i, w) ==
    i + Len(w) - 1 <= Len(t) /\ SubSeq(t, i, i + Len(w) - 1) = w

LitValue(w) ==
    CASE w = T_null -> JNull
      [] w = T_true -> JBoolean(TRUE)
      [] OTHER      -> JBoolean(FALSE)

(* C1: when the first character after leading spaces and newlines is 'n',  *)
(* 't' or 'f', from_str returns Null / Boolean(true) / Boolean(false)      *)
(* exactly when the characters that follow spell 'ull' / 'rue' / 'alse';   *)
(* otherwise (a different character, or the input ends first) it returns a *)
(* ParseError.                                                             *)
C1_Literals ==
    Done =>
      \A w \in LitWords :
        (FirstSig <= Len(input) /\ input[FirstSig] = w[1]) =>
          IF StartsWithAt(input, FirstSig, w)
          THEN result = Ok(LitValue(w))
          ELSE IsParseError(result)

C1_Witness ==
    /\ Done
    /\ input = <<NL, SP>> \o T_false
    /\ result = Ok(JBoolean(FALSE))

(* C2: a quoted string whose body is made of plain characters, newlines    *)
(* and the pairs \" and \\ parses to String of the body with each pair     *)
(* replaced by its second character and everything else copied in order;   *)
(* a body that holds a backslash followed by any other character gives     *)
(* ParseError("escape error.").                                            *)
C2_Strings ==
    Done =>
      /\ \A d \in GoodStringDocs \cup {Test_string_with_escaped_quote} :
            d[1] = input => result = Ok(d[2])
      /\ input \in BadStringTexts => result = Err(EscapeError)

C2_Witness ==
    /\ Done
    /\ input = StringText(<<<<BSLASH, QUOTE>>, <<NL>>, <<BSLASH, BSLASH>>>>)
    /\ result = Ok(JString(<<QUOTE, NL, BSLASH>>))

AllArrayDocs == NestedArrayDocs \cup WideArrayDocs \cup {Test_nested_list}

(* C4: '[' e1 , ... , en ']' (separators ',' plus spaces, elements literals, *)
(* strings, arrays or objects) parses to the Array of the n element values *)
(* in input order, duplicates kept; '[]' to the empty Array; nested arrays *)
(* likewise.                                                               *)
C4_Arrays ==
    Done => \A d \in AllArrayDocs : d[1] = input => result = Ok(d[2])

C4_Witness ==
    /\ Done
    /\ input = Test_nested_list[1]
    /\ result = Ok(JArray(<<JArray(<<JNull, JBoolean(FALSE)>>),
                            JArray(<<JNull, JBoolean(TRUE)>>)>>))

AllObjectDocs == NestedObjectDocs \cup {Test_nested_objects, Test_complex_multiline}

(* C5: an object text parses to the Object whose keys are exactly the keys *)
(* of the text, each mapped to the value of its last occurrence; '{}' to   *)
(* the empty Object.                                                       *)
C5_Objects ==
    Done => \A d \in AllObjectDocs : d[1] = input => result = Ok(d[2])

C5_Witness ==
    /\ Done
    /\ input = ObjectDoc(<<<<<<"a">>, <<T_null, JNull>>>>,
                           <<<<"a">>, <<StringText(<<<<"a">>>>), JString(<<"a">>)>>>>>>,
                         <<",">>)[1]
    /\ result = Ok(JObject([k \in {<<"a">>} |-> JString(<<"a">>)]))

RECURSIVE DecValue(_)
(* The decimal value of a digit string.                                    *)
DecValue(t) ==
    IF t = <<>> THEN 0
    ELSE 10 * DecValue(SubSeq(t, 1, Len(t) - 1)) + DigitVal(t[Len(t)])

AllDigits(t) == t # <<>> /\ \A i \in 1..Len(t) : t[i] \in Digits

(* C6: an input of decimal digits only parses to Number of its decimal     *)
(* value when that fits usize, and to ParseError("Couldn't parse number:   *)
(* <digits>") when it does not; never to a wrapped or truncated value.     *)
C6_Numbers ==
    (Done /\ AllDigits(input)) =>
      IF DecValue(input) <= USIZE_MAX
      THEN result = Ok(JNumber(DecValue(input)))
      ELSE result = Err(CouldntParse(input))

C6_Witness ==
    /\ Done
    /\ AllDigits(input)
    /\ DecValue(input) = USIZE_MAX + 1
    /\ IsParseError(result)

(* A string is open (parse_string_raw is in its loop, for a string value   *)
(* or an object key) and the iterator has nothing left to yield.           *)
StringOpenAtEof == At("parse_string_raw", "loop") /\ iter = Len(input)

(* C3: if the input ends while a string is open (a value or an object key, *)
(* in escape mode or not, at any depth, whatever eof_allowed holds),       *)
(* from_str returns ParseError("Unexpected eof.").                         *)
C3_UnclosedString ==
    [](StringOpenAtEof => [](Done => result = Err(UnexpectedEof)))

C3_Witness ==
    /\ StringOpenAtEof
    /\ Top.escape
    /\ Len(stack) >= 7
    /\ ~eof_allowed

(* The contexts of NumberContexts in which the number is the whole value   *)
(* handed to build's parse.                                                *)
TopContexts == {<<>>, <<SP>>}

(* A ParseError "unexpected character (Some(ch)) at line .., column ..".   *)
NamesCharacter(r, ch) ==
    /\ IsParseError(r)
    /\ Len(r[2][2]) = 4
    /\ r[2][2][1] = "unexpected character"
    /\ r[2][2][2] = ch

C7_Result(c, r, f) ==
    CASE f = <<>> ->
           IF c \in TopContexts THEN result = Ok(JNumber(DecValue(r)))
           ELSE result = Err(UnexpectedEof)
      [] Head(f) = "," ->
           /\ c \in TopContexts => result = Ok(JNumber(DecValue(r)))
           /\ (c = <<"[">> /\ f = <<",", "]">>) =>
                 result = Ok(JArray(<<JNumber(DecValue(r))>>))
           /\ (c = <<"{", QUOTE, "a", QUOTE, ":">> /\ f = <<",", "}">>) =>
                 result = Ok(JObject([k \in {<<"a">>} |-> JNumber(DecValue(r))]))
      [] OTHER -> NamesCharacter(result, Head(f))

C7_EndToEnd ==
    Done =>
      \A c \in NumberContexts, r \in ShortRuns, f \in NumberFollowers :
        input = c \o r \o f => C7_Result(c, r, f)

C7_Step ==
    (At("parse_number", "loop") /\ IsOk(ret')) =>
        (token' = "," \/ (token' = None /\ eof_allowed))

(* C7: a digit run becomes a Number only when the character after it is    *)
(* ',' or the input ends there with eof_allowed true.  Any other character *)
(* after it gives a ParseError naming that character, the end of the input *)
(* inside an array or object gives ParseError("Unexpected eof."): '[1]',   *)
(* '{"a":1}' and '1 ' are rejected, '[1,]' is accepted.                    *)
C7_NumberTerminator == []C7_EndToEnd /\ [][C7_Step]_vars

C7_Witness ==
    /\ Done
    /\ input = <<"[", "1", "]">>
    /\ NamesCharacter(result, "]")

(* Inputs that bring parse to its match with the input exhausted and no    *)
(* value begun: nothing, blanks only, the text up to an object's ':', the  *)
(* text up to a blank inside an array.                                     *)
EofAtDispatchTexts ==
    {<<>>, <<SP>>, <<NL>>, <<SP, NL, SP>>, <<"{", QUOTE, "a", QUOTE, ":">>,
     <<"[", SP>>, <<"[">> \o T_null \o <<",", SP>>}

(* C8: whenever parse is entered with end-of-input as the lookahead and no *)
(* value pending, from_str returns a ParseError.                           *)
C8_EofAtDispatch ==
    (Done /\ input \in EofAtDispatchTexts) => IsParseError(result)

(* The 0-based line and column of the i-th character of the input.         *)
LineOf(i)   == Cardinality({j \in 1..(i - 1) : input[j] = NL})
ColumnOf(i) ==
    LET nls == {j \in 1..(i - 1) : input[j] = NL}
        last == IF nls = {} THEN 0 ELSE CHOOSE j \in nls : \A k \in nls : k <= j
    IN  i - 1 - last

(* C9: the line and column of an "unexpected character" error are the      *)
(* 0-based line and column of the offending character: the newlines before *)
(* it, and the characters between the preceding newline (or the start of   *)
(* the input) and it.                                                      *)
C9_ZeroBasedPosition ==
    (Done /\ IsParseError(result) /\ Len(result[2][2]) = 4
          /\ result[2][2][1] = "unexpected character") =>
        /\ result[2][2][3] = LineOf(iter)
        /\ result[2][2][4] = ColumnOf(iter)

(* A step taken while the last returned Result is an Err.                 *)
C10_Step ==
    (IsErr(ret) /\ ~Done) =>
        /\ ret' = ret
        /\ stack' = Below
        /\ UNCHANGED <<iter, token, column, line, nexts, eof_allowed>>

(* C10: once a sub-parser has returned an error, every caller returns that *)
(* same error at once: the error is unchanged, the call stack only         *)
(* unwinds, and nothing more is read or written.                           *)
C10_FirstErrorReturned == [][C10_Step]_vars

C10_Witness ==
    /\ IsErr(ret)
    /\ Len(stack) >= 6
    /\ Top.fn = "parse_list"


(* C11: a run of spaces and newlines before the top-level value, between a *)
(* ',' or ':' and the value that follows, before an object key or before   *)
(* an object's closing brace does not change the result: the spaced text   *)
(* and the compact text of a document give the same value, and the         *)
(* indented multi-line document of the tests gives the value of its        *)
(* compact one-line form.                                                  *)
C11_Whitespace ==
    Done =>
      /\ \A d \in AllSpacedDocs : input = d[1] => result = Ok(d[2])
      /\ input \in {Test_complex_multiline[1], Test_complex_compact[1]}
           => result = Ok(Test_complex_multiline[2])

C11_Witness ==
    /\ Done
    /\ input = SpacedTop(SpacedObjectDoc(
                  <<<<<<"a">>, SpacedArrayDoc(<<<<T_false, JBoolean(FALSE)>>,
                                                <<T_null, JNull>>>>, <<NL, SP, SP>>)>>,
                    <<<<"b">>, <<T_null, JNull>>>>>>, <<NL, SP, SP>>), <<NL, SP, SP>>)[1]
    /\ result = Ok(JObject([k \in {<<"a">>, <<"b">>} |->
                     IF k = <<"a">> THEN JArray(<<JBoolean(FALSE), JNull>>) ELSE JNull]))

(* C12 as stated: the input '[,]' is rejected with a ParseError for the    *)
(* unexpected ','.                                                         *)
C12_CommaRejected ==
    Done /\ input = T_comma_list
      => IsParseError(result) /\ NamesCharacter(result, ",")

(* C12, amended: the input '[,]' is accepted.  The array parser skips the  *)
(* ',' itself, never handing it to the dispatcher (parse runs once, for    *)
(* the top-level value), and from_str returns the empty Array.             *)
C12_CommaSkipped ==
    input = T_comma_list
      => /\ \A i \in 1..Len(stack) : stack[i].fn = "parse" => i = 2
         /\ Done => result = Ok(JArray(<<>>))

C12_Witness ==
    Done /\ input = T_comma_list /\ IsOk(result) /\ nexts = Len(T_comma_list)

C13_Step ==
    LET entering == At("parse_list", "entry") \/ At("parse_object", "entry")
    IN  /\ entering => ~eof_allowed'
        /\ ~entering => eof_allowed' = eof_allowed

(* C13: eof_allowed is true after construction and stays true until the    *)
(* first '[' or '{' is dispatched; the array or object parser entered by   *)
(* that dispatch sets it to false, and no later step sets it back to true. *)
C13_EofAllowedLatch == (eof_allowed = TRUE) /\ [][C13_Step]_vars

C13_Witness ==
    /\ At("parse_list", "loop")
    /\ Top.list = <<JArray(<<>>)>>
    /\ ~eof_allowed

(* The value a parser has just returned, if it is a value: strings and    *)
(* key/value pairs are returned too, by parse_string_raw, parse_object_key *)
(* and parse_object_key_value.                                             *)
ReturnedValue ==
    IF ret # NoRet /\ IsOk(ret) /\ Len(ret[2]) >= 1 /\ ret[2][1] \in
           {"Null", "Boolean", "Number", "String", "Array", "Object"}
    THEN ret[2] ELSE None

(* C14: when the literal, string, array or object parser returns success   *)
(* the lookahead is the last character of the value just parsed (the final *)
(* letter, the closing '"', ']' or '}'), the character the iterator gave   *)
(* last; when the number parser returns success the lookahead is the ','   *)
(* that ended the digit run, or end-of-input.                              *)
C14_LookaheadAtReturn ==
    ReturnedValue # None =>
      LET kind == ReturnedValue[1]
      IN  /\ kind = "Null" => token = "l"
          /\ kind = "Boolean" => token = "e"
          /\ kind = "String" => token = QUOTE
          /\ kind = "Array" => token = "]"
          /\ kind = "Object" => token = "}"
          /\ kind # "Number" => iter = nexts /\ input[iter] = token
          /\ kind = "Number" => token \in {",", None}

C14_Witness ==
    /\ At("parse_list", "call")
    /\ ret # NoRet /\ IsOk(ret)
    /\ ret[2][1] = "Object"
    /\ DOMAIN ret[2][2] = {<<"a">>}
    /\ token = "}"
    /\ Top.list = <<JNull>>

(* The newlines among the characters consumed so far, the characters       *)
(* consumed since the last of them, and the advances that reported         *)
(* end-of-input.                                                           *)
NewlinesConsumed  == LineOf(iter + 1)
ConsumedSinceNewline == ColumnOf(iter + 1)
EofAdvances == nexts - iter

(* C15 as stated: in every reachable state line is the number of newlines  *)
(* consumed and column the number of characters consumed since the last    *)
(* newline.                                                                *)
C15_ColumnCountsCharacters ==
    line = NewlinesConsumed /\ column = ConsumedSinceNewline

C15_Step == (line' # line \/ column' # column) => nexts' > nexts

(* C15, amended: line and column start at 0 and are changed only by        *)
(* advance; in every reachable state line is the number of newlines        *)
(* consumed, and column is the number of characters consumed since the     *)
(* last newline plus the number of advances that reported end-of-input     *)
(* (such an advance increments column too).                                *)
C15_Position ==
    /\ line = 0 /\ column = 0
    /\ [](/\ line = NewlinesConsumed
          /\ column = ConsumedSinceNewline + EofAdvances)
    /\ [][C15_Step]_vars

C15_Witness ==
    /\ EofAdvances = 1
    /\ line = 1
    /\ ConsumedSinceNewline = 3
    /\ column = 4

(* The character after the last one consumed.                              *)
Peek == IF iter < Len(input) THEN input[iter + 1] ELSE None

(* parse_string_raw has returned an object's key and the next character is *)
(* not ':'.                                                                *)
KeyWithoutColon ==
    /\ At("parse_object_key", "call")
    /\ ret # NoRet /\ IsOk(ret)
    /\ Peek # ":"

C16_Step ==
    KeyWithoutColon =>
        /\ token' = Peek
        /\ ret' = Err(ExpectedColon([token |-> Peek, line |-> line',
                                     column |-> column']))
        /\ stack' = Below

(* C16: inside an object the character immediately after a key's closing   *)
(* quote must be ':'.  If it is anything else, a space, a newline or       *)
(* end-of-input included, the key parser returns a ParseError "Expected to *)
(* find ':' ..." that reports what was found, and that error is the result *)
(* of from_str: the value is not parsed (nothing more is fetched) and no   *)
(* entry is inserted.                                                      *)
C16_ColonAfterKey ==
    /\ [][C16_Step]_vars
    /\ [](KeyWithoutColon =>
            [](Done => /\ result = Err(ExpectedColon(Cursor))
                       /\ token # ":"))

C16_Witness ==
    /\ Done
    /\ input = <<"{", QUOTE, "b", QUOTE, ":">> \o T_null
                 \o <<",", QUOTE, "a", QUOTE, SP, ":">> \o T_null \o <<"}">>
    /\ result = Err(ParseError(<<"Expected to find ':', but found", SP, 0, 14>>))

(* Control is at the head of a loop: the all() of parse_ident, or the loop *)
(* of parse_number, parse_string_raw, parse_list or parse_object.          *)
AtLoopHead ==
    \/ At("parse_ident", "all")
    \/ At("parse_number", "loop")
    \/ At("parse_string_raw", "loop")
    \/ At("parse_list", "loop")
    \/ At("parse_object", "loop")

C17_Step ==
    /\ AtLoopHead => nexts' > nexts
    /\ EofAdvances > 0 => nexts' = nexts

(* C17: from_str terminates on every input.  The iterator is advanced at   *)
(* most len(input) + 1 times, every loop iteration of every sub-parser     *)
(* performs at least one advance, and once an advance has reported         *)
(* end-of-input no further advance is made.                                *)
C17_Termination ==
    /\ <>Done
    /\ [](nexts <= Len(input) + 1)
    /\ [][C17_Step]_vars

C17_Witness ==
    /\ Done
    /\ input = <<"[", "{", QUOTE, "a", QUOTE, ":", "[">> \o T_null
    /\ nexts = Len(input) + 1
    /\ IsParseError(result)

(* What from_str gives for a digit run alone (C6).                         *)
RunOutcome(d) ==
    IF DecValue(d) <= USIZE_MAX THEN Ok(JNumber(DecValue(d)))
    ELSE Err(CouldntParse(d))

(* C18: from_str returns as soon as the first top-level value is complete  *)
(* and never examines the rest of the input.  A top-level literal, string, *)
(* array or object followed by any text gives what the value alone gives,  *)
(* and nothing after the value is fetched ('nullx', '[]]' and '{}garbage'  *)
(* succeed); a top-level digit run followed by ',' and any text gives what *)
(* the digit run alone gives.                                              *)
C18_FirstValueOnly ==
    Done =>
      /\ \A d \in TopValueDocs : \A r \in Tails \cup {<<>>} :
           input = d[1] \o r => result = Ok(d[2]) /\ iter = Len(d[1])
      /\ \A d \in TailRuns : \A r \in Tails \cup {<<>>} :
           input \in {d, d \o <<",">> \o r}
             => result = RunOutcome(d) /\ iter <= Len(d) + 1

C18_Witness ==
    /\ Done
    /\ input = <<"{", "}", "g", "a", "r", "b", "a", "g", "e">>
    /\ result = Ok(JObject(HashMap_new))
    /\ iter = 2

(* C19: in an array, a space or newline directly before the closing ']'   *)
(* or before a ',' makes the parse fail: the blanks are handed to parse,   *)
(* which skips them and rejects the ']' or ',' it finds ('[ ]', '[null ]'  *)
(* and '[null ,false]' return a ParseError).  The object parser skips      *)
(* blanks itself and accepts '{ }' and '{"a":null }'.                      *)
C19_BlankBeforeCloser ==
    Done =>
      /\ \A t \in BlankArrayCases : input = t[1] => NamesCharacter(result, t[2])
      /\ \A d \in BlankObjectDocs : input = d[1] => result = Ok(d[2])

C19_Witness ==
    /\ Done
    /\ input = <<"[">> \o T_null \o <<SP, ",">> \o T_false \o <<"]">>
    /\ result = Err(unexpected_character([token |-> ",", line |-> 0, column |-> 7]))

(* C20: commas are skipped filler.  For arrays and objects whose elements  *)
(* are literals, strings, arrays or objects, deleting every separator      *)
(* comma, doubling it, or adding a comma before the first item or after    *)
(* the last leaves the result unchanged: every rendering gives the value   *)
(* of the usual one ('[nullnull]' and '[null,,null,]' give Array([Null,    *)
(* Null]); '{"a":null"b":true}' gives the Object of the two entries).      *)
C20_CommasAreFiller ==
    Done => \A d \in CommaDocs : input = d[1] => result = Ok(d[2])

C20_Witness ==
    /\ Done
    /\ input = <<"{", QUOTE, "a", QUOTE, ":">> \o T_null
                 \o <<QUOTE, "b", QUOTE, ":">> \o T_true \o <<"}">>
    /\ result = Ok(JObject([k \in {<<"a">>, <<"b">>} |->
                     IF k = <<"a">> THEN JNull ELSE JBoolean(TRUE)]))

=============================================================================










